---- MODULE Spec2Model ----
(***************************************************************************)
(* Model of cytec.py: the driver of a Cytec relay switch matrix over a     *)
(* serial VISA resource.                                                   *)
(*                                                                         *)
(* Python strings and bytes are sequences of one-character strings.        *)
(* Python lists are sequences; a Python index k is position k + 1.         *)
(* The relay cells True / False / None are the strings "True", "False",    *)
(* "None".                                                                 *)
(***************************************************************************)
EXTENDS Integers, Sequences, FiniteSets, TLC

VARIABLES
    pc,                       \* position of the running coroutine / phase
    state,                    \* CytecState of the session the caller holds
    c,                        \* CytecState of the Cytec the running coroutine works on
    inst,                     \* reply modes in effect on the instrument
    wire,                     \* calls made on the resource by the running operation
    raised,                   \* exception the running operation ended with, or "none"
    new_connections,          \* set_connections argument
    update_connections_first, \* set_connections argument
    verify_after,             \* set_connections argument
    xs,                       \* splitsum argument: <<token, length>> pairs
    packs,                    \* splitsum result
    packed_commands,          \* frames of the switch, in order
    sent,                     \* number of frames of packed_commands written so far
    commands,                 \* set_connections local: the relay operations per module
    op,                       \* the operation running or last run
    now,                      \* perf_counter(), in ms since set_connections was entered
    last_time,                \* set_connections local
    tasks,                    \* asyncio tasks: the steps of each and how many it has run
    running                   \* the task the event loop is running, or "none"

vars == <<pc, state, c, inst, wire, raised, new_connections,
          update_connections_first, verify_after, xs, packs, packed_commands, sent,
          commands, op, now, last_time, tasks, running>>

----------------------------------------------------------------------------
(* Program constants *)

MAX_COMMAND_LENGTH == 60
SWITCHING_DELAY == 20
DefaultModules == 8
DefaultOutputs == 16

(* The step of the clock, in ms *)
Tick == SWITCHING_DELAY \div 2

(* Bounds of the model *)

MaxModules == 2
MaxOutputs == 2
MaxTokens == 4
MaxCells == 6

----------------------------------------------------------------------------
(* Strings *)

Min(a, b) == IF a < b THEN a ELSE b

Digit(d) ==
    CASE d = 0 -> "0" [] d = 1 -> "1" [] d = 2 -> "2" [] d = 3 -> "3"
      [] d = 4 -> "4" [] d = 5 -> "5" [] d = 6 -> "6" [] d = 7 -> "7"
      [] d = 8 -> "8" [] d = 9 -> "9"

RECURSIVE str(_)
(* str(n) of a non-negative int, as an f-string formats it *)
str(n) == IF n < 10 THEN <<Digit(n)>> ELSE str(n \div 10) \o <<Digit(n % 10)>>

RECURSIVE join(_, _)
(* sep.join(parts) *)
join(sep, parts) ==
    IF parts = <<>> THEN <<>>
    ELSE IF Len(parts) = 1 THEN parts[1]
    ELSE parts[1] \o sep \o join(sep, Tail(parts))

RECURSIVE concat_all(_)
(* [x for xs in nested for x in xs] *)
concat_all(nested) ==
    IF nested = <<>> THEN <<>> ELSE Head(nested) \o concat_all(Tail(nested))

(* Select the elements of a sequence at the positions satisfying keep *)
RECURSIVE positions(_, _, _)
positions(n, k, keep) ==
    IF k > n THEN <<>>
    ELSE (IF k \in keep THEN <<k>> ELSE <<>>) \o positions(n, k + 1, keep)

----------------------------------------------------------------------------
(* Connection matrices *)

True == "True"
False == "False"
None == "None"

(* transpose: the rows of x zipped together; zip stops at the shortest row *)
MinRowLen(x) ==
    IF x = <<>> THEN 0
    ELSE CHOOSE n \in {Len(x[k]) : k \in 1..Len(x)} :
            \A k \in 1..Len(x) : n <= Len(x[k])

transpose(x) ==
    [j \in 1..MinRowLen(x) |-> [i \in 1..Len(x) |-> x[i][j]]]

(* set_connection: a copy of c with one cell replaced (0-based module, output) *)
set_connection(cn, module, output, value) ==
    [cn EXCEPT ![module + 1][output + 1] = value]

latch(cn, module, output) == set_connection(cn, module, output, True)
unlatch(cn, module, output) == set_connection(cn, module, output, False)

----------------------------------------------------------------------------
(* splitsum *)

(* on = lambda x: x[1] *)
on(x) == x[2]

RECURSIVE splitsum_loop(_, _, _, _)
splitsum_loop(rest, maximum_sum, result, t) ==
    IF rest = <<>> THEN result
    ELSE LET x == Head(rest)
             n == on(x)
         IN IF t + n > maximum_sum
            THEN splitsum_loop(Tail(rest), maximum_sum, Append(result, <<x>>), n)
            ELSE splitsum_loop(Tail(rest), maximum_sum,
                               [result EXCEPT ![Len(result)] = Append(@, x)], t + n)

RECURSIVE splitsum_variant(_, _, _, _, _)
(* splitsum_loop with one slip: "ge" compares with >=, "late" compares the total *)
(* before adding the token, "drop" opens the new frame without the token        *)
splitsum_variant(rest, maximum_sum, result, t, slip) ==
    IF rest = <<>> THEN result
    ELSE LET x == Head(rest)
             n == on(x)
             over == CASE slip = "ge" -> t + n >= maximum_sum
                       [] slip = "late" -> t > maximum_sum
                       [] OTHER -> t + n > maximum_sum
         IN IF over
            THEN splitsum_variant(Tail(rest), maximum_sum,
                    Append(result, IF slip = "drop" THEN <<>> ELSE <<x>>), n, slip)
            ELSE splitsum_variant(Tail(rest), maximum_sum,
                    [result EXCEPT ![Len(result)] = Append(@, x)], t + n, slip)

splitsum_ge(items, maximum_sum) == splitsum_variant(items, maximum_sum, << <<>> >>, 0, "ge")
splitsum_late(items, maximum_sum) == splitsum_variant(items, maximum_sum, << <<>> >>, 0, "late")
splitsum_drop(items, maximum_sum) == splitsum_variant(items, maximum_sum, << <<>> >>, 0, "drop")

splitsum(items, maximum_sum) == splitsum_loop(items, maximum_sum, << <<>> >>, 0)

----------------------------------------------------------------------------
(* set_connections: diff, serialisation and packing (lines 141-155) *)

(* p ^ q raises TypeError when either operand is None *)
xor_raises(cur, new) ==
    \E i \in 1..Min(Len(cur), Len(new)) :
        \E j \in 1..Min(Len(cur[i]), Len(new[i])) :
            cur[i][j] = None \/ new[i][j] = None

(* diff_commands with the operation taken from the current cell, not the new one *)
diff_commands_from_current(cur, new) ==
    [i \in 1..Min(Len(cur), Len(new)) |->
        LET n == Min(Len(cur[i]), Len(new[i]))
            differ == {j \in 1..n : cur[i][j] # new[i][j]}
            js == positions(n, 1, differ)
        IN [k \in 1..Len(js) |->
                <<IF cur[i][js[k]] = True THEN "L" ELSE "U", i - 1, js[k] - 1>>]]

(* commands: per module i, the (op, i, j) of every differing cell, by output *)
diff_commands(cur, new) ==
    [i \in 1..Min(Len(cur), Len(new)) |->
        LET n == Min(Len(cur[i]), Len(new[i]))
            differ == {j \in 1..n : cur[i][j] # new[i][j]}
            js == positions(n, 1, differ)
        IN [k \in 1..Len(js) |->
                <<IF new[i][js[k]] = True THEN "L" ELSE "U", i - 1, js[k] - 1>>]]

(* f"{command}{i} {j}" if n == 0 else f"{command}{j}" *)
token(n, command) ==
    IF n = 0 THEN <<command[1]>> \o str(command[2]) \o <<" ">> \o str(command[3])
    ELSE <<command[1]>> \o str(command[3])

grouped_commands_nested(cmds) ==
    [i \in 1..Len(cmds) |-> [k \in 1..Len(cmds[i]) |-> token(k - 1, cmds[i][k])]]

grouped_commands(cmds) == concat_all(grouped_commands_nested(cmds))

(* zip(grouped_commands, lengths), lengths = len(c) + 1 *)
with_lengths(tokens) == [k \in 1..Len(tokens) |-> <<tokens[k], Len(tokens[k]) + 1>>]

(* ";".join([c for (c, _) in pack]) for pack in packs *)
pack_commands(pks) ==
    [f \in 1..Len(pks) |-> join(<<";">>, [k \in 1..Len(pks[f]) |-> pks[f][k][1]])]

----------------------------------------------------------------------------
(* Wire protocol *)

A0 == <<"A", "0", " ", "7", "3">>
E0 == <<"E", "0", " ", "7", "3">>
V0 == <<"V", "0", " ", "7", "3">>
A1 == <<"A", "1", " ", "7", "3">>
CR == "\r"

(* "A0 73;E0 73;V0 73;A1 73" *)
answerback_only == join(<<";">>, <<A0, E0, V0, A1>>)

(* "A0 73;E0 73;V0 73" *)
silence == join(<<";">>, <<A0, E0, V0>>)

(* ";".join(["P2 1 73", f"P10 {state.modules} 73", f"P20 {state.outputs} 73"]) *)
system_config(s) ==
    join(<<";">>, << <<"P", "2", " ", "1", " ", "7", "3">>,
                     <<"P", "1", "0", " ">> \o str(s.modules) \o <<" ", "7", "3">>,
                     <<"P", "2", "0", " ">> \o str(s.outputs) \o <<" ", "7", "3">> >>)

(* 3 * b"0\r" *)
config_ack == <<"0", CR, "0", CR, "0", CR>>

status_query == <<"S">>

(* handshake_ok accepting any reply that starts with "0" *)
handshake_ok_prefix(rv) == rv # <<>> /\ Head(rv) = "0"

(* config_ok looking at the first acknowledgement only *)
config_ok_first(rv) == SubSeq(rv, 1, 2) = <<"0", CR>>

(* rv != "0", lines 55 and 61 *)
handshake_ok(rv) == rv = <<"0">>

(* rv != 3 * b"0\r", line 72 *)
config_ok(rv) == rv = config_ack

(* One call on the resource, as the wire log records it *)
Write(data) == [call |-> "write", data |-> data]
Query(data) == [call |-> "query", data |-> data]
Reply(data) == [call |-> "reply", data |-> data]
ReadBytes(data) == [call |-> "read_bytes", data |-> data]
Failed(call) == [call |-> call, data |-> <<"VisaIOError">>]

----------------------------------------------------------------------------
(* silenced and connections *)

(* silenced writing the silence command whatever the flags are *)
silenced_writes_always(s, force) == <<Write(silence)>>

(* silenced: the writes it makes *)
silenced_writes(s, force) ==
    IF force \/ s.answerback \/ s.echo \/ s.verbose THEN <<Write(silence)>> ELSE <<>>

(* silenced: the state of the Cytec it returns *)
silenced(s) == [s EXCEPT !.answerback = FALSE, !.echo = FALSE, !.verbose = FALSE]

RECURSIVE split(_, _)
(* status.split(b"\r"), cur being the segment under construction *)
split(bytes, cur) ==
    IF bytes = <<>> THEN <<cur>>
    ELSE IF Head(bytes) = CR THEN <<cur>> \o split(Tail(bytes), <<>>)
    ELSE split(Tail(bytes), Append(cur, Head(bytes)))

(* relay_states.get(b, None) *)
relay_state(b) == IF b = "0" THEN False ELSE IF b = "1" THEN True ELSE None

(* The decoding without the transposition: one row per line of the status *)
decode_by_line(status) ==
    LET lines == split(status, <<>>)
        kept == SubSeq(lines, 1, Len(lines) - 1)
    IN [k \in 1..Len(kept) |->
            [b \in 1..Len(kept[k]) |-> relay_state(kept[k][b])]]

(* new_connections of connections: lines 101-105 *)
decode(status) ==
    LET lines == split(status, <<>>)
        kept == SubSeq(lines, 1, Len(lines) - 1)
    IN transpose([k \in 1..Len(kept) |->
                    [b \in 1..Len(kept[k]) |-> relay_state(kept[k][b])]])

(* connections: the calls it makes when the read returns status *)
connections_wire(s, status) ==
    silenced_writes(s, FALSE) \o <<Write(status_query), ReadBytes(status)>>

(* connections returning the matrix it was given instead of the one it read *)
connections_stale(s, status) == silenced(s)

(* connections: the state of the Cytec it returns *)
connections(s, status) == [silenced(s) EXCEPT !.connections = decode(status)]

----------------------------------------------------------------------------
(* The caller's inputs and the instrument's answers *)

BoolMatrices(m, o) == [1..m -> [1..o -> {True, False}]]

Uniform(m, o, value) == [i \in 1..m |-> [j \in 1..o |-> value]]

Only(m, o, module, output) ==
    [i \in 1..m |-> [j \in 1..o |-> IF i = module /\ j = output THEN True ELSE False]]

(* The matrices of a session: no relay connected, every relay connected, *)
(* one relay connected (last output of the first module, first output of *)
(* the last module)                                                      *)
SessionMatrices(m, o) ==
    {Uniform(m, o, False), Uniform(m, o, True), Only(m, o, 1, o), Only(m, o, m, 1)}

(* The status dump of matrix M: one line per output, one byte per module *)
Encode(M, m, o) ==
    concat_all([j \in 1..o |->
        [i \in 1..m |-> IF M[i][j] = True THEN "1" ELSE "0"] \o <<CR>>])

(* Status dumps with one byte damaged, of the right length *)
Damaged(m, o) ==
    LET z == Encode(Uniform(m, o, False), m, o)
    IN {[z EXCEPT ![k] = b] : k \in {1, Len(z)}, b \in {"?", CR, "1"}}

(* What read_bytes((modules + 1) * outputs) can return *)
StatusReplies(s) ==
    {Encode(M, s.modules, s.outputs) : M \in SessionMatrices(s.modules, s.outputs)}
        \cup Damaged(s.modules, s.outputs)

(* What query(answerback_only) can return *)
HandshakeReplies == {<<"0">>, <<"1">>, <<"0", "0">>}

(* What read_bytes(2 * 3) can return *)
ConfigAcks == {config_ack, <<"0", CR, "0", CR, "1", CR>>, <<"1", CR, "0", CR, "0", CR>>,
               <<"0", "0", "0", CR, CR, CR>>}

(* resource.last_status after a VisaIOError *)
StatusCodes == {"error_serial_framing", "error_timeout"}

Modes == [answerback : BOOLEAN, echo : BOOLEAN, verbose : BOOLEAN]

(* The reply modes after the instrument has executed a command line *)
inst_after(modes, data) ==
    IF data = answerback_only THEN [answerback |-> TRUE, echo |-> FALSE, verbose |-> FALSE]
    ELSE IF data = silence THEN [answerback |-> FALSE, echo |-> FALSE, verbose |-> FALSE]
    ELSE modes

RECURSIVE inst_after_all(_, _)
(* The reply modes after the instrument has executed every write of a log *)
inst_after_all(modes, log) ==
    IF log = <<>> THEN modes
    ELSE inst_after_all(
            IF Head(log).call \in {"write", "query"} THEN inst_after(modes, Head(log).data)
            ELSE modes,
            Tail(log))

(* CytecState as the caller constructs it; connections defaults to [[]] *)
CytecStates ==
    {[modules |-> m, outputs |-> o, answerback |-> a, echo |-> e, verbose |-> v,
      connections |-> << <<>> >>] :
        m \in 1..MaxModules, o \in 1..MaxOutputs,
        a \in BOOLEAN, e \in BOOLEAN, v \in BOOLEAN}

(* The clock before set_connections is entered *)
NoClock ==
    /\ now = 0
    /\ last_time = 0

(* No operation was started as a task *)
NoTasks ==
    /\ tasks = <<>>
    /\ running = "none"

NoPacking ==
    /\ xs = <<>>
    /\ packs = <<>>
    /\ packed_commands = <<>>
    /\ sent = 0
    /\ commands = <<>>

----------------------------------------------------------------------------
(* The session *)

Init ==
    /\ pc = "handshake"
    /\ op = "from_serial_resource"
    /\ state \in CytecStates
    /\ c = state
    /\ inst \in Modes
    /\ wire = <<>>
    /\ raised = "none"
    /\ new_connections = <<>>
    /\ update_connections_first = TRUE
    /\ verify_after = TRUE
    /\ NoPacking
    /\ NoClock
    /\ NoTasks

(* An operation ends by raising: the caller keeps the session it had *)
Raise(exception, calls, next) ==
    /\ raised' = exception
    /\ wire' = wire \o calls
    /\ inst' = inst_after_all(inst, calls)
    /\ pc' = next
    /\ UNCHANGED <<state, c>>

(* from_serial_resource, lines 53-59: the first query of answerback_only *)
Handshake ==
    /\ pc = "handshake"
    /\ \/ \E rv \in HandshakeReplies :
            LET calls == <<Query(answerback_only), Reply(rv)>>
            IN IF ~handshake_ok(rv)
               THEN Raise("CytecInitializationError", calls, "failed")
               ELSE /\ wire' = wire \o calls
                    /\ inst' = inst_after_all(inst, calls)
                    /\ pc' = "configure"
                    /\ UNCHANGED <<state, c, raised>>
       \/ \E last_status \in StatusCodes :
            LET calls == <<Query(answerback_only), Failed(last_status)>>
            IN IF last_status # "error_serial_framing"
               THEN Raise("CytecInitializationError", calls, "failed")
               ELSE /\ wire' = wire \o calls
                    /\ inst' = inst_after_all(inst, calls)
                    /\ pc' = "retry"
                    /\ UNCHANGED <<state, c, raised>>
    /\ UNCHANGED <<op, new_connections, update_connections_first, verify_after,
                   xs, packs, packed_commands, sent, commands, now, last_time>>
    /\ UNCHANGED <<tasks, running>>

(* from_serial_resource, lines 60-62: the query again, inside the except clause *)
HandshakeRetry ==
    /\ pc = "retry"
    /\ \/ \E rv \in HandshakeReplies :
            LET calls == <<Query(answerback_only), Reply(rv)>>
            IN IF ~handshake_ok(rv)
               THEN Raise("CytecInitializationError", calls, "failed")
               ELSE /\ wire' = wire \o calls
                    /\ inst' = inst_after_all(inst, calls)
                    /\ pc' = "configure"
                    /\ UNCHANGED <<state, c, raised>>
       \/ \E last_status \in StatusCodes :
            Raise("VisaIOError", <<Query(answerback_only), Failed(last_status)>>, "failed")
    /\ UNCHANGED <<op, new_connections, update_connections_first, verify_after,
                   xs, packs, packed_commands, sent, commands, now, last_time>>
    /\ UNCHANGED <<tasks, running>>

(* from_serial_resource, lines 64-77: the system configuration *)
Configure ==
    /\ pc = "configure"
    /\ \/ \E rv \in ConfigAcks :
            LET calls == <<Write(system_config(state)), ReadBytes(rv)>>
            IN IF ~config_ok(rv)
               THEN Raise("CytecInitializationError", calls, "failed")
               ELSE /\ wire' = wire \o calls
                    /\ inst' = inst_after_all(inst, calls)
                    /\ pc' = "init_connections"
                    /\ c' = state
                    /\ UNCHANGED <<state, raised>>
       \/ \E last_status \in StatusCodes :
            \/ Raise("CytecInitializationError",
                     <<Failed(last_status)>>, "failed")
            \/ Raise("CytecInitializationError",
                     <<Write(system_config(state)), Failed(last_status)>>, "failed")
    /\ UNCHANGED <<op, new_connections, update_connections_first, verify_after,
                   xs, packs, packed_commands, sent, commands, now, last_time>>
    /\ UNCHANGED <<tasks, running>>

(* connections(cin) after the calls of log, its read returning status *)
ConnectionsReturns(cin, log, status) ==
    /\ wire' = log \o connections_wire(cin, status)
    /\ inst' = inst_after_all(inst, connections_wire(cin, status))

(* connections(cin) after the calls of log, its read raising VisaIOError *)
ConnectionsRaises(cin, log, last_status) ==
    LET calls == silenced_writes(cin, FALSE) \o <<Write(status_query), Failed(last_status)>>
    IN /\ wire' = log \o calls
       /\ inst' = inst_after_all(inst, calls)
       /\ raised' = "VisaIOError"

(* from_serial_resource, line 78: return await connections(init) *)
InitConnections ==
    /\ pc = "init_connections"
    /\ \/ \E status \in StatusReplies(c) :
            /\ ConnectionsReturns(c, wire, status)
            /\ state' = connections(c, status)
            /\ c' = state'
            /\ pc' = "ready"
            /\ UNCHANGED raised
       \/ \E last_status \in StatusCodes :
            /\ ConnectionsRaises(c, wire, last_status)
            /\ pc' = "failed"
            /\ UNCHANGED <<state, c>>
    /\ UNCHANGED <<op, new_connections, update_connections_first, verify_after,
                   xs, packs, packed_commands, sent, commands, now, last_time>>
    /\ UNCHANGED <<tasks, running>>

----------------------------------------------------------------------------
(* Ready: refresh and switch.  An operation that raises leaves the caller  *)
(* with the session it held.                                               *)

(* await connections(c) on the session the caller holds, the instrument *)
(* answering the status query with one of replies                       *)
RefreshWith(replies) ==
    /\ pc = "ready"
    /\ op' = "connections"
    /\ \/ \E status \in replies :
            /\ ConnectionsReturns(state, <<>>, status)
            /\ state' = connections(state, status)
            /\ c' = state'
            /\ raised' = "none"
       \/ \E last_status \in StatusCodes :
            /\ ConnectionsRaises(state, <<>>, last_status)
            /\ UNCHANGED <<state, c>>
    /\ pc' = "ready"
    /\ UNCHANGED <<new_connections, update_connections_first, verify_after,
                   xs, packs, packed_commands, sent, commands, now, last_time>>
    /\ UNCHANGED <<tasks, running>>

(* The caller refreshes *)
Refresh == RefreshWith(StatusReplies(state))

(* The caller switches: set_connections is entered, lines 131-135 *)
SetConnections ==
    /\ pc = "ready"
    /\ op' = "set_connections"
    /\ raised' = "none"
    /\ wire' = <<>>
    /\ c' = state
    /\ new_connections' \in SessionMatrices(state.modules, state.outputs)
    /\ update_connections_first' \in BOOLEAN
    /\ verify_after' \in BOOLEAN
    /\ pc' = IF update_connections_first' THEN "update" ELSE "commands"
    /\ xs' = <<>>
    /\ packs' = <<>>
    /\ packed_commands' = <<>>
    /\ sent' = 0
    /\ commands' = <<>>
    /\ now' = 0
    /\ last_time' = 0
    /\ UNCHANGED <<state, inst>>
    /\ UNCHANGED <<tasks, running>>

(* set_connections, line 136: await connections(c), then the call again *)
UpdateConnectionsFirst ==
    /\ pc = "update"
    /\ \/ \E status \in StatusReplies(c) :
            /\ ConnectionsReturns(c, wire, status)
            /\ c' = connections(c, status)
            /\ pc' = "commands"
            /\ UNCHANGED raised
       \/ \E last_status \in StatusCodes :
            /\ ConnectionsRaises(c, wire, last_status)
            /\ pc' = "ready"
            /\ UNCHANGED c
    /\ UNCHANGED <<state, op, new_connections, update_connections_first, verify_after,
                   xs, packs, packed_commands, sent, commands, now, last_time>>
    /\ UNCHANGED <<tasks, running>>

(* set_connections, lines 141-158: diff, serialise, pack, silence *)
Commands ==
    /\ pc = "commands"
    /\ IF xor_raises(c.connections, new_connections)
       THEN /\ raised' = "TypeError"
            /\ pc' = "ready"
            /\ UNCHANGED <<wire, inst, xs, packs, packed_commands, sent, commands, now, last_time>>
       ELSE /\ commands' = diff_commands(c.connections, new_connections)
            /\ xs' = with_lengths(grouped_commands(commands'))
            /\ packs' = splitsum(xs', MAX_COMMAND_LENGTH)
            /\ packed_commands' = pack_commands(packs')
            /\ sent' = 0
            /\ wire' = wire \o silenced_writes(c, FALSE)
            /\ inst' = inst_after_all(inst, silenced_writes(c, FALSE))
            /\ last_time' = now
            /\ pc' = "write"
            /\ UNCHANGED <<raised, now>>
    /\ UNCHANGED <<state, c, op, new_connections, update_connections_first, verify_after>>
    /\ UNCHANGED <<tasks, running>>

(* The time a call of resource.write can take *)
WriteTimes == {0, Tick}

(* The loop leaving as soon as the clock has reached last_time *)
settled_at_once(t, last) == t >= last

(* set_connections, line 167: the loop leaves when the clock reads t *)
settled(t, last) == t >= last + SWITCHING_DELAY

(* set_connections, lines 159-164: one turn of the loop over packed_commands, *)
(* the write taking some time and last_time being read after it              *)
WriteCommand ==
    /\ pc = "write"
    /\ sent < Len(packed_commands)
    /\ wire' = Append(wire, Write(packed_commands[sent + 1]))
    /\ sent' = sent + 1
    /\ \E d \in WriteTimes : now' = now + d
    /\ last_time' = now'
    /\ UNCHANGED <<pc, state, c, inst, raised, op, new_connections,
                   update_connections_first, verify_after, xs, packs,
                   packed_commands, commands>>
    /\ UNCHANGED <<tasks, running>>

(* set_connections, lines 167-168: one turn of the busy wait *)
Wait ==
    /\ pc = "write"
    /\ sent = Len(packed_commands)
    /\ verify_after
    /\ ~settled(now, last_time)
    /\ now' = now + Tick
    /\ UNCHANGED <<pc, state, c, inst, wire, raised, op, new_connections,
                   update_connections_first, verify_after, xs, packs,
                   packed_commands, sent, commands, last_time>>
    /\ UNCHANGED <<tasks, running>>

(* set_connections, lines 166-180: cpost = await connections(cpre); return cpost *)
VerifyAfter ==
    /\ pc = "write"
    /\ sent = Len(packed_commands)
    /\ verify_after
    /\ settled(now, last_time)
    /\ \/ \E status \in StatusReplies(c) :
            /\ ConnectionsReturns(silenced(c), wire, status)
            /\ state' = connections(silenced(c), status)
            /\ c' = state'
            /\ UNCHANGED raised
       \/ \E last_status \in StatusCodes :
            /\ ConnectionsRaises(silenced(c), wire, last_status)
            /\ UNCHANGED <<state, c>>
    /\ pc' = "ready"
    /\ UNCHANGED <<op, new_connections, update_connections_first, verify_after,
                   xs, packs, packed_commands, sent, commands, now, last_time>>
    /\ UNCHANGED <<tasks, running>>

(* set_connections returning cpre as it is instead of the target *)
ReturnStale ==
    /\ pc = "write"
    /\ sent = Len(packed_commands)
    /\ ~verify_after
    /\ state' = c
    /\ c' = state'
    /\ pc' = "ready"
    /\ UNCHANGED <<inst, wire, raised, op, new_connections, update_connections_first,
                   verify_after, xs, packs, packed_commands, sent, commands, now, last_time>>
    /\ UNCHANGED <<tasks, running>>

(* set_connections, line 182: the target is returned as the new state *)
ReturnUnverified ==
    /\ pc = "write"
    /\ sent = Len(packed_commands)
    /\ ~verify_after
    /\ state' = [c EXCEPT !.connections = new_connections]
    /\ c' = state'
    /\ pc' = "ready"
    /\ UNCHANGED <<inst, wire, raised, op, new_connections, update_connections_first,
                   verify_after, xs, packs, packed_commands, sent, commands, now, last_time>>
    /\ UNCHANGED <<tasks, running>>

Next ==
    \/ Handshake
    \/ HandshakeRetry
    \/ Configure
    \/ InitConnections
    \/ Refresh
    \/ SetConnections
    \/ UpdateConnectionsFirst
    \/ Commands
    \/ WriteCommand
    \/ Wait
    \/ VerifyAfter
    \/ ReturnUnverified

Spec == Init /\ [][Next]_vars

----------------------------------------------------------------------------
(* splitsum on its own: the packing of set_connections, lines 153-155, applied *)
(* to any sequence of tokens                                                   *)

(* A token of the given cost: a continuation token with a long output number *)
TokenOfCost(n) == <<"L">> \o [k \in 1..(n - 2) |-> "1"]

TokenCosts ==
    {MAX_COMMAND_LENGTH \div 3, MAX_COMMAND_LENGTH \div 2, MAX_COMMAND_LENGTH \div 2 + 1,
     MAX_COMMAND_LENGTH, MAX_COMMAND_LENGTH + 1}

TokenSeqs ==
    UNION {[1..n -> {TokenOfCost(k) : k \in TokenCosts}] : n \in 0..MaxTokens}

InitPack ==
    /\ pc = "splitsum"
    /\ op = "splitsum"
    /\ \E tokens \in TokenSeqs : xs = with_lengths(tokens)
    /\ packs = <<>>
    /\ packed_commands = <<>>
    /\ sent = 0
    /\ commands = <<>>
    /\ state = [modules |-> DefaultModules, outputs |-> DefaultOutputs,
                answerback |-> FALSE, echo |-> FALSE, verbose |-> FALSE,
                connections |-> << <<>> >>]
    /\ c = state
    /\ inst = [answerback |-> FALSE, echo |-> FALSE, verbose |-> FALSE]
    /\ wire = <<>>
    /\ raised = "none"
    /\ new_connections = <<>>
    /\ update_connections_first = FALSE
    /\ verify_after = FALSE
    /\ NoClock
    /\ NoTasks

(* set_connections, lines 154-155: packs and packed_commands of the tokens xs *)
Splitsum ==
    /\ pc = "splitsum"
    /\ packs' = splitsum(xs, MAX_COMMAND_LENGTH)
    /\ packed_commands' = pack_commands(packs')
    /\ pc' = "packed"
    /\ UNCHANGED <<state, c, inst, wire, raised, new_connections,
                   update_connections_first, verify_after, xs, sent, commands, op,
                   now, last_time>>
    /\ UNCHANGED <<tasks, running>>

NextPack == Splitsum

SpecPack == InitPack /\ [][NextPack]_vars

----------------------------------------------------------------------------
(* set_connections entered with update_connections_first = False and        *)
(* verify_after = False on a session holding any matrix: every pair of      *)
(* matrices of at most MaxCells cells, and pairs of matrices of the default *)
(* dimensions in which every module has its first outputs connected, the    *)
(* two differing in at most VerifyOutputs outputs of each module            *)

(* Two outputs: with the default modules, a switch of two frames *)
VerifyOutputs == DefaultOutputs \div DefaultModules

Prefix(m, o, n) == [i \in 1..m |-> [j \in 1..o |-> IF j <= n THEN True ELSE False]]

InitSwitch ==
    /\ pc = "commands"
    /\ op = "set_connections"
    /\ \/ \E m \in 1..MaxCells, o \in 1..MaxCells :
            /\ m * o <= MaxCells
            /\ \E A \in BoolMatrices(m, o), B \in BoolMatrices(m, o) :
                /\ state = [modules |-> m, outputs |-> o,
                            answerback |-> FALSE, echo |-> FALSE, verbose |-> FALSE,
                            connections |-> A]
                /\ new_connections = B
       \/ \E n \in 0..DefaultOutputs, k \in 0..DefaultOutputs :
            /\ n - k <= VerifyOutputs
            /\ k - n <= VerifyOutputs
            /\ state = [modules |-> DefaultModules, outputs |-> DefaultOutputs,
                        answerback |-> FALSE, echo |-> FALSE, verbose |-> FALSE,
                        connections |-> Prefix(DefaultModules, DefaultOutputs, n)]
            /\ new_connections = Prefix(DefaultModules, DefaultOutputs, k)
    /\ c = state
    /\ inst = [answerback |-> FALSE, echo |-> FALSE, verbose |-> FALSE]
    /\ wire = <<>>
    /\ raised = "none"
    /\ update_connections_first = FALSE
    /\ verify_after = FALSE
    /\ NoPacking
    /\ NoClock
    /\ NoTasks

NextSwitch ==
    \/ Commands
    \/ WriteCommand
    \/ ReturnUnverified

SpecSwitch == InitSwitch /\ [][NextSwitch]_vars

----------------------------------------------------------------------------
(* set_connections entered with update_connections_first = False and      *)
(* verify_after = True on a session of the default modules with            *)
(* VerifyOutputs outputs: switches of one or two frames, the clock running *)

VerifyMatrices ==
    SessionMatrices(DefaultModules, VerifyOutputs)
        \cup {Prefix(DefaultModules, VerifyOutputs, n) : n \in 0..VerifyOutputs}

InitVerify ==
    /\ pc = "commands"
    /\ op = "set_connections"
    /\ \E A \in VerifyMatrices, B \in VerifyMatrices :
            /\ state = [modules |-> DefaultModules, outputs |-> VerifyOutputs,
                        answerback |-> FALSE, echo |-> FALSE, verbose |-> FALSE,
                        connections |-> A]
            /\ new_connections = B
    /\ c = state
    /\ inst = [answerback |-> FALSE, echo |-> FALSE, verbose |-> FALSE]
    /\ wire = <<>>
    /\ raised = "none"
    /\ update_connections_first = FALSE
    /\ verify_after = TRUE
    /\ NoPacking
    /\ NoClock
    /\ NoTasks

NextVerify ==
    \/ Commands
    \/ WriteCommand
    \/ Wait
    \/ VerifyAfter

SpecVerify == InitVerify /\ [][NextVerify]_vars

----------------------------------------------------------------------------
(* connections on a silent session of any dimensions of at most MaxCells *)
(* cells, the instrument reporting any matrix of these dimensions        *)

(* The status dumps of every matrix of the dimensions of session s *)
KnownStatus(s) == {Encode(M, s.modules, s.outputs) : M \in BoolMatrices(s.modules, s.outputs)}

InitStatus ==
    /\ pc = "ready"
    /\ op = "connections"
    /\ \E m \in 1..MaxCells, o \in 1..MaxCells :
            /\ m * o <= MaxCells
            /\ state = [modules |-> m, outputs |-> o,
                        answerback |-> FALSE, echo |-> FALSE, verbose |-> FALSE,
                        connections |-> Uniform(m, o, False)]
    /\ c = state
    /\ inst = [answerback |-> FALSE, echo |-> FALSE, verbose |-> FALSE]
    /\ wire = <<>>
    /\ raised = "none"
    /\ new_connections = <<>>
    /\ update_connections_first = TRUE
    /\ verify_after = TRUE
    /\ NoPacking
    /\ NoClock
    /\ NoTasks

RefreshKnown == RefreshWith(KnownStatus(state))

NextStatus == RefreshKnown

SpecStatus == InitStatus /\ [][NextStatus]_vars

----------------------------------------------------------------------------
(* Two operations started as asyncio tasks on the session the caller holds. *)
(* A task is the sequence of its steps: the calls it makes on the resource  *)
(* and its await expressions.  The event loop runs one task at a time, up   *)
(* to an await that suspends it or to its end.                              *)

Tasks == {"first", "second"}

Call(call) == [kind |-> "call", call |-> call, of |-> "resource"]

Await(of) == [kind |-> "await", call |-> <<>>, of |-> of]

Calls(log) == [k \in 1..Len(log) |-> Call(log[k])]

(* Every await of a task gives the event loop the hand *)
suspends_always(of) == TRUE

(* await on the coroutines silenced, connections and set_connections runs   *)
(* them in the task that awaits; none of them awaits a future or a sleep,   *)
(* and write and read_bytes block                                           *)
suspends(of) == FALSE

(* The steps of connections(s), its read returning status *)
connections_steps(s, status) ==
    <<Await("silenced")>> \o Calls(connections_wire(s, status))

(* The steps of set_connections with update_connections_first = False; the  *)
(* read of the verification returns post                                    *)
set_connections_body(s, new, verify, post) ==
    IF xor_raises(s.connections, new) THEN <<>>
    ELSE LET frames == pack_commands(splitsum(
                 with_lengths(grouped_commands(diff_commands(s.connections, new))),
                 MAX_COMMAND_LENGTH))
         IN <<Await("silenced")>>
                \o Calls(silenced_writes(s, FALSE))
                \o Calls([f \in 1..Len(frames) |-> Write(frames[f])])
                \o (IF verify
                    THEN <<Await("connections")>> \o connections_steps(silenced(s), post)
                    ELSE <<>>)

(* The steps of set_connections; the read of the refresh returns status *)
set_connections_steps(s, new, update_first, verify, status, post) ==
    IF update_first
    THEN <<Await("connections")>> \o connections_steps(s, status)
            \o <<Await("set_connections")>>
            \o set_connections_body(connections(s, status), new, verify, post)
    ELSE set_connections_body(s, new, verify, post)

(* What the instrument answers to the status queries of the tasks *)
TaskReplies(s) ==
    {Encode(Uniform(s.modules, s.outputs, v), s.modules, s.outputs) : v \in {True, False}}

(* The targets of the switches of the tasks *)
TaskTargets(s) == {Uniform(s.modules, s.outputs, True), Only(s.modules, s.outputs, 1, s.outputs)}

(* The operations a task can be *)
TaskSteps(s) ==
    {connections_steps(s, status) : status \in TaskReplies(s)}
        \cup {set_connections_steps(s, new, u, v, status, post) :
                new \in TaskTargets(s), u \in BOOLEAN, v \in BOOLEAN,
                status \in TaskReplies(s), post \in TaskReplies(s)}

InitTasks ==
    /\ pc = "tasks"
    /\ op = "tasks"
    /\ \E a \in BOOLEAN :
            state = [modules |-> MaxModules, outputs |-> MaxOutputs,
                     answerback |-> a, echo |-> FALSE, verbose |-> FALSE,
                     connections |-> Uniform(MaxModules, MaxOutputs, False)]
    /\ c = state
    /\ inst = [answerback |-> state.answerback, echo |-> state.echo,
               verbose |-> state.verbose]
    /\ wire = <<>>
    /\ raised = "none"
    /\ new_connections = <<>>
    /\ update_connections_first = TRUE
    /\ verify_after = TRUE
    /\ NoPacking
    /\ NoClock
    /\ tasks \in [Tasks -> [steps : TaskSteps(state), at : {0}]]
    /\ running = "none"

Finished(t) == tasks[t].at = Len(tasks[t].steps)

(* The event loop gives the hand to a task that has steps to run *)
Schedule ==
    /\ pc = "tasks"
    /\ running = "none"
    /\ \E t \in Tasks :
            /\ ~Finished(t)
            /\ running' = t
    /\ UNCHANGED <<pc, state, c, inst, wire, raised, new_connections,
                   update_connections_first, verify_after, xs, packs, packed_commands,
                   sent, commands, op, now, last_time, tasks>>

(* The running task runs its next step: a call on the resource, logged with *)
(* the task that made it, or an await                                       *)
Step ==
    /\ pc = "tasks"
    /\ running \in Tasks
    /\ LET t == running
           st == tasks[t].steps[tasks[t].at + 1]
       IN /\ tasks' = [tasks EXCEPT ![t].at = @ + 1]
          /\ IF st.kind = "call"
             THEN /\ wire' = Append(wire, [call |-> st.call.call, data |-> st.call.data,
                                            task |-> t])
                  /\ inst' = inst_after_all(inst, <<st.call>>)
             ELSE UNCHANGED <<wire, inst>>
          /\ running' = IF tasks[t].at + 1 = Len(tasks[t].steps)
                           \/ (st.kind = "await" /\ suspends(st.of))
                        THEN "none" ELSE t
    /\ UNCHANGED <<pc, state, c, raised, new_connections,
                   update_connections_first, verify_after, xs, packs, packed_commands,
                   sent, commands, op, now, last_time>>

NextTasks ==
    \/ Schedule
    \/ Step

SpecTasks == InitTasks /\ [][NextTasks]_vars

----------------------------------------------------------------------------
(* Properties *)

InWire(call, data) == \E k \in 1..Len(wire) : wire[k] = [call |-> call, data |-> data]

Initializing == op = "from_serial_resource"

Switched == pc = "ready" /\ op = "set_connections"

(* len(token) + 1 *)
Cost(x) == Len(x[1]) + 1

RECURSIVE TotalCost(_)
TotalCost(items) == IF items = <<>> THEN 0 ELSE Cost(Head(items)) + TotalCost(Tail(items))

Packable(items) == \A k \in 1..Len(items) : Cost(items[k]) <= MAX_COMMAND_LENGTH

(* The fewest frames of cost at most MAX_COMMAND_LENGTH that items can be cut into, *)
(* a cut at k falling between items k and k + 1                                      *)
MinFrames(items) ==
    LET n == Len(items)
        fits(cuts) == \A i \in 1..n : \A j \in i..n :
                        (\A k \in i..(j - 1) : k \notin cuts)
                            => TotalCost(SubSeq(items, i, j)) <= MAX_COMMAND_LENGTH
        counts == {Cardinality(cuts) + 1 : cuts \in {cs \in SUBSET (1..(n - 1)) : fits(cs)}}
    IN CHOOSE m \in counts : \A other \in counts : m <= other

(* C1: a switch asked to verify never returns a session whose observed matrix *)
(* differs from the requested one; it raises CytecSwitchingError instead      *)
C1_VerifyMismatchRaises ==
    (Switched /\ verify_after /\ raised = "none") => state.connections = new_connections

(* The relay operations of the switch, in the order of their tokens *)
FlatCommands == concat_all(commands)

(* Number of tokens in the frames before frame f *)
RECURSIVE TokensBefore(_)
TokensBefore(f) == IF f <= 1 THEN 0 ELSE TokensBefore(f - 1) + Len(packs[f - 1])

(* A shorthand token {op}{output} holds no space *)
IsContinuation(tok) == \A k \in 1..Len(tok) : tok[k] # " "

(* Position among all tokens of the token that introduced the module of token g *)
IntroducedAt(g) ==
    CHOOSE h \in 1..g :
        /\ FlatCommands[h][2] = FlatCommands[g][2]
        /\ \A e \in 1..(h - 1) : FlatCommands[e][2] # FlatCommands[g][2]

(* C2: in every frame written by a switch, each shorthand continuation token *)
(* is preceded in that frame by the token that introduced its module          *)
C2_ContinuationWithIntroduction ==
    (op = "set_connections" /\ pc = "write")
        => \A f \in 1..sent : \A k \in 1..Len(packs[f]) :
                IsContinuation(packs[f][k][1])
                    => IntroducedAt(TokensBefore(f) + k) > TokensBefore(f)

RECURSIVE ApplyAll(_, _)
(* latch / unlatch applied for every operation, in order *)
ApplyAll(cn, ops) ==
    IF ops = <<>> THEN cn
    ELSE ApplyAll(IF Head(ops)[1] = "L" THEN latch(cn, Head(ops)[2], Head(ops)[3])
                  ELSE unlatch(cn, Head(ops)[2], Head(ops)[3]),
                  Tail(ops))

(* C3: applying every operation of the diff of A against B to A yields B *)
C3_DiffApplyRoundTrip ==
    (op = "set_connections" /\ pc = "write")
        => ApplyAll(c.connections, FlatCommands) = new_connections

C3_Witness ==
    /\ op = "set_connections" /\ pc = "write"
    /\ Len(commands) >= 2
    /\ \E g, h \in 1..Len(FlatCommands) :
        /\ FlatCommands[g][1] = "L" /\ FlatCommands[h][1] = "U"
        /\ FlatCommands[g][2] # FlatCommands[h][2]

(* C4: when every token costs at most MAX_COMMAND_LENGTH, so does every frame *)
C4_FrameWithinMaximum ==
    (pc = "packed" /\ Packable(xs))
        => \A f \in 1..Len(packs) : TotalCost(packs[f]) <= MAX_COMMAND_LENGTH

C4_Witness ==
    /\ pc = "packed" /\ Packable(xs)
    /\ Len(packs) >= 2
    /\ \E f \in 1..Len(packs) :
        Len(packs[f]) >= 2 /\ TotalCost(packs[f]) = MAX_COMMAND_LENGTH

(* C5: the tokens of the frames, concatenated in order, are the input tokens *)
C5_FramesConcatenateToInput ==
    pc = "packed" => concat_all(packs) = xs

C5_Witness ==
    /\ pc = "packed"
    /\ Len(xs) >= 3
    /\ Len(packs) >= 2
    /\ \E k \in 1..Len(xs) : ~Packable(<<xs[k]>>)

(* C6: for a non-empty sequence of tokens that each cost at most the maximum, *)
(* no cut into frames within the maximum has fewer frames than the packer's   *)
C6_FewestFrames ==
    (pc = "packed" /\ xs # <<>> /\ Packable(xs)) => Len(packs) = MinFrames(xs)

C6_Witness ==
    /\ pc = "packed" /\ Packable(xs)
    /\ Len(xs) >= 3
    /\ Len(packs) = 2
    /\ TotalCost(packs[1]) = MAX_COMMAND_LENGTH

(* C7: a token that costs more than the maximum makes packing fail with *)
(* CommandTooLong, and no frame longer than the maximum is produced     *)
C7_CommandTooLong ==
    (pc = "packed" /\ ~Packable(xs))
        => /\ raised = "CommandTooLong"
           /\ \A f \in 1..Len(packed_commands) :
                Len(packed_commands[f]) + 1 <= MAX_COMMAND_LENGTH

(* Position in the wire log of the first call with this content, 0 if none *)
FirstAt(call, data) ==
    IF InWire(call, data)
    THEN CHOOSE k \in 1..Len(wire) :
            /\ wire[k] = [call |-> call, data |-> data]
            /\ \A h \in 1..(k - 1) : wire[h] # [call |-> call, data |-> data]
    ELSE 0

BadHandshakeReply == \E k \in 1..Len(wire) : wire[k].call = "reply" /\ wire[k].data # <<"0">>

(* C8: during initialization the configuration command is written only after *)
(* a handshake query returned "0"; any other reply raises                     *)
(* CytecInitializationError and neither the configuration nor "S" is written  *)
C8_ConfigureOnlyAfterHandshake ==
    Initializing =>
        /\ InWire("write", system_config(state))
            => /\ InWire("reply", <<"0">>)
               /\ FirstAt("reply", <<"0">>) < FirstAt("write", system_config(state))
        /\ BadHandshakeReply
            => /\ raised = "CytecInitializationError"
               /\ ~InWire("write", system_config(state))
               /\ ~InWire("write", status_query)

C8_Witness ==
    /\ Initializing
    /\ BadHandshakeReply
    /\ InWire("error_serial_framing", <<"VisaIOError">>)
    /\ raised = "CytecInitializationError"

NumQueries == Cardinality({k \in 1..Len(wire) : wire[k].call = "query"})

(* C9: after a framing error on the first handshake query the query is made *)
(* once more; a second failure of any kind raises CytecInitializationError; *)
(* the query is never made more than twice                                  *)
C9_RetryOnceThenFail ==
    Initializing =>
        /\ NumQueries <= 2
        /\ (Len(wire) >= 2 /\ wire[2] = Failed("error_serial_framing"))
            => /\ pc # "retry" => NumQueries = 2
               /\ (Len(wire) >= 4 /\ wire[4] # Reply(<<"0">>))
                    => raised = "CytecInitializationError"

(* The call that followed the write of the configuration command was not the *)
(* read of three "0\r"                                                        *)
ConfigRejected ==
    \E k \in 2..Len(wire) :
        wire[k - 1] = Write(system_config(state)) /\ wire[k] # ReadBytes(config_ack)

ConfigAcknowledged ==
    \E k \in 2..Len(wire) :
        wire[k - 1] = Write(system_config(state)) /\ wire[k] = ReadBytes(config_ack)

(* C10: after the configuration command, initialization goes on to the status *)
(* query, and returns a session, only if the 6 bytes read back are three      *)
(* "0\r"; otherwise CytecInitializationError is raised and no "S" is written  *)
C10_ConfigurationAcknowledged ==
    Initializing =>
        /\ (InWire("write", status_query) \/ (pc = "ready" /\ raised = "none"))
            => ConfigAcknowledged
        /\ ConfigRejected
            => /\ raised = "CytecInitializationError"
               /\ ~InWire("write", status_query)

C10_Witness ==
    /\ Initializing
    /\ ConfigRejected
    /\ \E k \in 1..Len(wire) :
        wire[k].call = "read_bytes" /\ wire[k].data = <<"0", CR, "0", CR, "1", CR>>
    /\ raised = "CytecInitializationError"

----------------------------------------------------------------------------
(* Properties of refresh and switch *)

(* The running or last operation returned a session *)
Returned == pc = "ready" /\ raised = "none"

(* The last call of the wire log is a status read that returned bytes *)
StatusRead ==
    /\ Len(wire) >= 2
    /\ wire[Len(wire)].call = "read_bytes"
    /\ wire[Len(wire) - 1] = Write(status_query)

LastStatus == wire[Len(wire)].data

HasUnknown(cn) == \E i \in 1..Len(cn) : \E j \in 1..Len(cn[i]) : cn[i][j] = None

(* C11: a status response holding a byte other than '0', '1' and the terminator *)
(* makes the refresh fail with MalformedStatusResponse; no returned session     *)
(* holds an unknown cell                                                        *)
C11_NoUnknownCellStored ==
    /\ (Returned /\ op \in {"from_serial_resource", "connections"})
            => ~HasUnknown(state.connections)
    /\ (op \in {"from_serial_resource", "connections"} /\ pc \in {"ready", "failed"}
            /\ StatusRead /\ \E k \in 1..Len(LastStatus) : LastStatus[k] \notin {"0", "1", CR})
            => raised = "MalformedStatusResponse"

HasDimensions(cn, m, o) == Len(cn) = m /\ \A i \in 1..Len(cn) : Len(cn[i]) = o

(* C18: every session returned by a refresh or a switch holds a matrix of *)
(* exactly modules rows of outputs cells, wherever the terminators of the *)
(* status response fell                                                   *)
C18_DimensionsKept ==
    Returned => HasDimensions(state.connections, state.modules, state.outputs)

(* C19: every frame a switch writes holds at least one command token; a switch *)
(* with an empty diff writes no frame (stated for a switch working on a matrix *)
(* of the configured dimensions with every cell known)                         *)
C19_NoEmptyFrame ==
    (op = "set_connections" /\ pc = "write"
            /\ HasDimensions(c.connections, c.modules, c.outputs)
            /\ ~HasUnknown(c.connections))
        => /\ \A f \in 1..sent : packs[f] # <<>>
           /\ FlatCommands = <<>> => sent = 0

Flags(s) == [answerback |-> s.answerback, echo |-> s.echo, verbose |-> s.verbose]

Silent == [answerback |-> FALSE, echo |-> FALSE, verbose |-> FALSE]

(* C16: the flags of every returned session are the reply modes in effect on *)
(* the instrument, and the instrument is silent when "S" is written          *)
C16_FlagsAreInstrumentModes ==
    /\ Returned => Flags(state) = inst
    /\ (Len(wire) >= 2 /\ wire[Len(wire) - 1] = Write(status_query)) => inst = Silent

(* A step that runs connections: at initialization, a refresh of the caller, *)
(* the refresh at the start of a switch                                       *)
ConnectionsStep ==
    \/ pc \in {"init_connections", "update"}
    \/ pc = "ready" /\ op' = "connections"

(* The session connections is called with in that step *)
ConnectionsInput == IF pc = "ready" THEN state ELSE c

(* The session it returns *)
ConnectionsOutput == IF pc = "update" THEN c' ELSE state'

(* The transport calls it makes *)
ConnectionsCalls ==
    IF pc = "ready" THEN wire' ELSE SubSeq(wire', Len(wire) + 1, Len(wire'))

AnyFlag(s) == s.answerback \/ s.echo \/ s.verbose

(* C17: a refresh writes the silence command if and only if one of the flags *)
(* of the session it is given is on, and the session it returns has the      *)
(* three flags off; a refresh of a session at rest, which a previous refresh *)
(* or switch returned, writes no silence command                             *)
C17_SilenceIffFlagOn ==
    [][ConnectionsStep =>
        /\ (\E k \in 1..Len(ConnectionsCalls) : ConnectionsCalls[k] = Write(silence))
                <=> AnyFlag(ConnectionsInput)
        /\ raised' = "none" => Flags(ConnectionsOutput) = Silent
        /\ pc = "ready" =>
                \A k \in 1..Len(wire') : wire'[k] # Write(silence)]_vars

(* Initialization of a session with a flag on has written the silence command *)
(* before its status query and returned the flags off                         *)
C17_Witness ==
    /\ Initializing
    /\ Returned
    /\ wire[Len(wire) - 2] = Write(silence)
    /\ wire[Len(wire) - 1] = Write(status_query)
    /\ Flags(state) = Silent

(* The last `sent` calls of the log are the frames written so far, in order *)
FramesLast(log) ==
    /\ Len(log) >= sent
    /\ \A f \in 1..sent : log[Len(log) - sent + f] = Write(packed_commands[f])

(* C15: without verify, the switch returns a session whose matrix is the     *)
(* target, with the modules and outputs of the session it was given, and     *)
(* nothing is written or read after the command frames                       *)
C15_UnverifiedReturnsTarget ==
    [][(pc = "write" /\ pc' = "ready" /\ ~verify_after) =>
        /\ state'.connections = new_connections
        /\ state'.modules = state.modules
        /\ state'.outputs = state.outputs
        /\ raised' = "none"
        /\ sent = Len(packed_commands)
        /\ wire' = wire
        /\ FramesLast(wire)]_vars

(* A switch without verify has returned the target after writing a frame of *)
(* commands, its last call being the last frame                              *)
C15_Witness ==
    /\ Switched
    /\ Returned
    /\ ~verify_after
    /\ sent >= 1
    /\ packs[1] # <<>>
    /\ wire[Len(wire)] = Write(packed_commands[sent])
    /\ state.connections = new_connections

(* The switch has read the status, before any frame, and holds its decoding *)
ReadFirst ==
    \E k \in 1..(Len(wire) - sent - 1) :
        /\ wire[k] = Write(status_query)
        /\ wire[k + 1].call = "read_bytes"
        /\ c.connections = decode(wire[k + 1].data)
        /\ pc = "write" => commands = diff_commands(decode(wire[k + 1].data), new_connections)

(* The switch is about to compute the diff, or has computed it and writes frames *)
Diffing == op = "set_connections" /\ pc \in {"commands", "write"}

(* C13: every switch writes a status query and decodes its reply before it *)
(* computes the diff and before it writes any frame                         *)
C13_AlwaysReadFirst == Diffing => ReadFirst

(* C13, amended: a switch called with update_connections_first true (the     *)
(* default) reads and decodes the status before the diff and before any      *)
(* frame; called with update_connections_first false it writes no status     *)
(* query before the frames and diffs against the matrix of the session given *)
C13_ReadFirstWhenAsked ==
    Diffing =>
        IF update_connections_first THEN ReadFirst
        ELSE /\ \A k \in 1..Len(wire) : wire[k] # Write(status_query)
             /\ c.connections = state.connections
             /\ pc = "write" => commands = diff_commands(state.connections, new_connections)

(* A switch that read the status first has written a frame of commands *)
C13_Witness ==
    /\ Diffing
    /\ update_connections_first
    /\ sent >= 1
    /\ packs[1] # <<>>
    /\ wire[1] = Write(status_query)

(* The byte of module i on the line of output j in a status of m modules *)
StatusByte(status, m, i, j) == status[(j - 1) * (m + 1) + i]

(* The status is the dump of a matrix of m x o relays, every cell known *)
KnownDump(status, m, o) ==
    /\ Len(status) = (m + 1) * o
    /\ \A j \in 1..o :
        /\ \A i \in 1..m : StatusByte(status, m, i, j) \in {"0", "1"}
        /\ status[j * (m + 1)] = CR

(* C12: decoding the status dump of a matrix M of modules x outputs known *)
(* cells gives M in module-major order: the cell of module i and output j *)
(* is the byte at position i of line j                                    *)
C12_StatusRoundTrip ==
    (op = "connections" /\ Returned /\ StatusRead
            /\ KnownDump(LastStatus, state.modules, state.outputs))
        => /\ HasDimensions(state.connections, state.modules, state.outputs)
           /\ \A i \in 1..state.modules : \A j \in 1..state.outputs :
                state.connections[i][j] =
                    relay_state(StatusByte(LastStatus, state.modules, i, j))
           /\ Encode(state.connections, state.modules, state.outputs) = LastStatus

(* A refresh has decoded the dump of a matrix that is not square and has a *)
(* module with one output connected and another not                        *)
C12_Witness ==
    /\ op = "connections"
    /\ Returned
    /\ StatusRead
    /\ KnownDump(LastStatus, state.modules, state.outputs)
    /\ state.modules = 2
    /\ state.outputs = 3
    /\ state.connections[1] = <<True, False, False>>
    /\ state.connections[2] = <<True, True, False>>
    /\ LastStatus = <<"1", "1", CR, "0", "1", CR, "0", "0", CR>>

(* A step of the loop over packed_commands *)
WriteStep == pc = "write" /\ sent' = sent + 1

(* A step of the busy wait *)
WaitStep == pc = "write" /\ pc' = "write" /\ sent' = sent /\ now' # now

(* The step of the status query after the frames *)
VerifyStep == pc = "write" /\ pc' = "ready" /\ verify_after

(* C14: with verify, the status query after the switch is written only after *)
(* every frame of the switch has been written and not before SWITCHING_DELAY *)
(* has elapsed since the last frame was written (last_time is read after     *)
(* each frame and kept through the wait); the switch then returns the matrix *)
(* decoded from that query                                                   *)
C14_VerifyAfterSettling ==
    [][/\ WriteStep => (now' >= now /\ last_time' = now')
       /\ WaitStep => (now' > now /\ last_time' = last_time /\ wire' = wire)
       /\ VerifyStep =>
            /\ sent = Len(packed_commands)
            /\ FramesLast(wire)
            /\ now >= last_time + SWITCHING_DELAY
            /\ now' = now
            /\ Len(wire') = Len(wire) + 2
            /\ wire'[Len(wire) + 1] = Write(status_query)
            /\ raised' = "none" =>
                    /\ wire'[Len(wire')].call = "read_bytes"
                    /\ state'.connections = decode(wire'[Len(wire')].data)]_vars

(* A switch of several frames, whose writes took time, has waited, queried *)
(* the status after the last frame and returned the matrix it read          *)
C14_Witness ==
    /\ Switched
    /\ verify_after
    /\ Returned
    /\ sent >= 2
    /\ sent = Len(packed_commands)
    /\ last_time > 0
    /\ now = last_time + SWITCHING_DELAY
    /\ StatusRead
    /\ wire[Len(wire) - 2] = Write(packed_commands[sent])
    /\ state.connections = decode(LastStatus)
    /\ state.connections # new_connections

(* C20: the calls that two tasks make on the resource never interleave: no *)
(* call of the other task lies between two calls of one task               *)
C20_NoInterleaving ==
    \A i \in 1..Len(wire) : \A k \in i..Len(wire) :
        wire[i].task = wire[k].task
            => \A j \in i..k : wire[j].task = wire[i].task

(* Two tasks have run to their end, each a switch that refreshed, wrote a *)
(* frame and verified, and both have made their calls on the resource     *)
C20_Witness ==
    /\ running = "none"
    /\ \A t \in Tasks :
        /\ Finished(t)
        /\ Cardinality({k \in 1..Len(wire) : wire[k].task = t /\ wire[k].data = status_query}) = 2
        /\ \E k \in 1..Len(wire) : wire[k].task = t /\ wire[k].data \notin {status_query, silence}
                                    /\ wire[k].call = "write"

====
